---- MODULE Spec2Model ----
(***************************************************************************)
(* station-model-symbology: the decode worker (main_worker.js), the        *)
(* caller context of main.js (worker bridge, result table, polling         *)
(* waitForDecodedSynop, meteoStation) as a state machine.                  *)
(*                                                                         *)
(* Two execution contexts run in parallel: the main (caller/render)        *)
(* context and the worker.  Each runs its handlers to completion; the      *)
(* worker's only interior position visible to the other context is "inside *)
(* decodeSynop" (the synchronous runPython call), because postMessage      *)
(* hands a result over while the worker's processQueue loop continues.     *)
(***************************************************************************)
EXTENDS Integers, Sequences, FiniteSets, TLC

(* ---------------------------- bounds ---------------------------------- *)
\* number of meteoStation calls made by the host over the run
MaxCalls == 2
\* poll ticks until waitForDecodedSynop times out (10000 / 20 in the
\* source; the budget is scaled down, the interval is the source's)
MaxTicks == 2

(* ---------------------------- constants ------------------------------- *)
\* let interval = 20
interval == 20
\* let timeOut = 10000, scaled to MaxTicks intervals
timeOutStart == MaxTicks * interval

Calls == 1..MaxCalls

\* SYNOP_raw values: null/undefined (== null is true for both), the empty
\* string, and a report text
Absent == "null"
Empty == ""
Report == "AAXX 01004"
Texts == {Absent, Empty, Report}

\* decoded values carried by a response: null, or the parsed record, which
\* carries the raw text under _raw
NullDecoded == <<>>
Parsed(raw) == <<"_raw", raw>>

\* the first message of the main context: document.baseURI, a string
BaseURI == [kind |-> "baseURI", SYNOP_raw |-> Absent, leafletID |-> 0, src |-> 0]
\* {SYNOP_raw: data.rawSynop, leafletID: data.leafletID}; src is a history
\* tag (the call that posted it), read by no action
Request(c, raw, id) == [kind |-> "request", SYNOP_raw |-> raw, leafletID |-> id, src |-> c]
\* e.data.hasOwnProperty('SYNOP_raw')
HasSynopRawValue(m) == m.kind = "request" /\ m.SYNOP_raw # Absent
HasSynopRaw(m) == m.kind = "request"
\* {decoded: ..., leafletID: ...}
Response(dec, m) == [decoded |-> dec, leafletID |-> m.leafletID, src |-> m.src]

VARIABLES
  \* channels
  toWorker,               \* messages posted to the worker, not yet handled
  toMain,                 \* messages posted by the worker, not yet handled
  \* main_worker.js
  messageQueue,
  pyodideStarting,
  processQueueIsRunning,
  ctx,                    \* "undefined" | "pyodide"
  startup,                \* startPyodide(): "notCalled" | "pending" | "fulfilled" | "rejected"
  wpc,                    \* worker position: "idle" | "decodeSynop"
  encoded,                \* the message decodeSynop is working on
  \* main.js
  decodedSynops,
  nCalls,                 \* meteoStation calls made so far
  data,                   \* data[c]: [rawSynop, leafletID] of call c
  timeOut,                \* timeOut[c] of the call's waitForDecodedSynop
  timers,                 \* the calls whose interval timer is set, in the order they fire next
  promise,                \* "none" | "pending" | "resolved" | "rejected"
  result,                 \* index in decodedSynops of the entry resolved with, 0 if none
  compile,                \* meteoStation(c): "notCalled" | "awaiting" | "svgSlots" | "svgEmpty" | "rejected"
  \* history
  duringInit,             \* calls whose request the worker handled while starting up
  handled,                \* calls whose request the worker has handled
  decodeLog,              \* calls the decoder was invoked for, in order
  outcome,                \* outcome[c]: what the decoder returned for call c
  late,                   \* indices of decodedSynops appended after their caller timed out
  startPyodideCalls,      \* number of startPyodide() calls made so far
  rejects,                \* rejects[c]: number of reject() calls of c's promise
  \* the text functions of main.js, applied to one input
  fmtPc,                  \* "off" | "input" | "applied"
  fmtIn,                  \* the function and its arguments
  fmtOut,                 \* the string returned
  fmtStyle,               \* the style attribute set on the slot's element, "" if none
  \* one meteoStation call seen from its arguments to the svg it returns
  renderPc,               \* "off" | "called" | "awaiting" | "returned" | "threw"
  userOptions,            \* the userOptions argument
  pointCoords,            \* pointCoords[1], the latitude
  decodedData,            \* what the await will hand over: NullDecoded or <<record>>
  missingAssets,          \* icon directories for which loadSVGIcon gives null
  options,                \* Object.assign(defaultOptions, userOptions)
  svg,                    \* the svg element built
  thrown,                 \* the exception that left meteoStation, "" if none
  ruleLog,                \* slots whose case of the switch was entered
  \* wrapper_Leaflet.js, one run of _main
  features,               \* the layers' features: the field's value and _leaflet_id
  layer                   \* number of layers eachLayer has visited

workerVars == <<messageQueue, pyodideStarting, processQueueIsRunning, ctx, startup, wpc, encoded>>
mainVars == <<decodedSynops, nCalls, data, timeOut, timers, promise, result, compile, rejects>>
histVars == <<duringInit, handled, decodeLog, outcome, late, startPyodideCalls>>
fmtVars == <<fmtPc, fmtIn, fmtOut, fmtStyle>>
renderVars == <<renderPc, userOptions, pointCoords, decodedData, missingAssets, options, svg, thrown, ruleLog>>
wrapperVars == <<features, layer>>
symbolVars == <<fmtVars, renderVars, wrapperVars>>
vars == <<toWorker, toMain, workerVars, mainVars, histVars, symbolVars>>

NoMessage == [kind |-> "none", SYNOP_raw |-> Absent, leafletID |-> 0, src |-> 0]

\* no text function is being applied
NoInput == [fn |-> "none", value |-> 0, unit |-> "none"]
FormatOff == fmtPc = "off" /\ fmtIn = NoInput /\ fmtOut = <<>> /\ fmtStyle = ""

\* a value that may be undefined: <<>> is undefined (NaN after
\* arithmetic), <<n>> the number n in hundredths
Undefined == <<>>
Num(n) == <<n>>

\* var defaultOptions = {...}; extra holds the other own keys
defaultOptions ==
  [scaling |-> [stationModel |-> Num(100), font |-> Num(100)],
   polyChromatic |-> TRUE,
   highCloudsInRed |-> TRUE,
   temperature |-> "raw",
   dewPoint |-> "raw",
   elementsToOmit |-> {},
   debug |-> FALSE,
   extra |-> {}]

\* document.createElementNS(..., "svg") before any attribute is set
NewSvg == [transform |-> Undefined, fontSize |-> Undefined, children |-> <<>>]

\* meteoStation is not being called
NoOptions == [keys |-> {}, elementsToOmit |-> {}, scaling |-> defaultOptions.scaling]
RenderOff ==
  /\ renderPc = "off"
  /\ userOptions = NoOptions
  /\ pointCoords = 45
  /\ decodedData = NullDecoded
  /\ missingAssets = {}
  /\ options = defaultOptions
  /\ svg = NewSvg
  /\ thrown = ""
  /\ ruleLog = {}

\* no layer group has been added to a map
WrapperOff == features = <<>> /\ layer = 0

Init ==
  /\ toWorker = <<BaseURI>>          \* myWorker.postMessage(document.baseURI)
  /\ toMain = <<>>
  /\ messageQueue = <<>>
  /\ pyodideStarting = FALSE
  /\ processQueueIsRunning = FALSE
  /\ ctx = "undefined"
  /\ startup = "notCalled"
  /\ wpc = "idle"
  /\ encoded = NoMessage
  /\ decodedSynops = <<>>
  /\ nCalls = 0
  /\ data = [c \in Calls |-> [rawSynop |-> Absent, leafletID |-> 0]]
  /\ timeOut = [c \in Calls |-> 0]
  /\ timers = <<>>
  /\ promise = [c \in Calls |-> "none"]
  /\ result = [c \in Calls |-> 0]
  /\ compile = [c \in Calls |-> "notCalled"]
  /\ duringInit = {}
  /\ handled = {}
  /\ decodeLog = <<>>
  /\ outcome = [c \in Calls |-> "none"]
  /\ late = {}
  /\ startPyodideCalls = 0
  /\ rejects = [c \in Calls |-> 0]
  /\ FormatOff
  /\ RenderOff
  /\ WrapperOff

(* ------------------------- main_worker.js ----------------------------- *)

\* e.data.SYNOP_raw == null
IsAbsentAsEmpty(raw) == raw = Empty
IsAbsent(raw) == raw = Absent

\* messageQueue.push(e.data)
PushFront(q, m) == <<m>> \o q
Push(q, m) == Append(q, m)

\* messageQueue.shift(): the item taken and the queue left
Pop(q) == [item |-> q[Len(q)], rest |-> SubSeq(q, 1, Len(q) - 1)]
Shift(q) == [item |-> Head(q), rest |-> Tail(q)]

\* processQueue(): the loop test and, when the queue is not empty, the
\* entry into decodeSynop(messageQueue.shift()); when it is empty the loop
\* ends and processQueueIsRunning is reset
ProcessQueue(q) ==
  IF Len(q) > 0
  THEN /\ processQueueIsRunning' = TRUE
       /\ encoded' = Shift(q).item
       /\ messageQueue' = Shift(q).rest
       /\ decodeLog' = Append(decodeLog, Shift(q).item.src)
       /\ wpc' = "decodeSynop"
  ELSE /\ processQueueIsRunning' = FALSE
       /\ encoded' = NoMessage
       /\ messageQueue' = q
       /\ decodeLog' = decodeLog
       /\ wpc' = "idle"

\* onmessage, else branch: the baseURI message; startPyodide() runs to its
\* first await
OnMessageBaseURI ==
  /\ wpc = "idle"
  /\ toWorker # <<>>
  /\ ~HasSynopRaw(Head(toWorker))
  /\ toWorker' = Tail(toWorker)
  /\ pyodideStarting' = TRUE
  /\ startup' = "pending"
  /\ startPyodideCalls' = startPyodideCalls + 1
  /\ UNCHANGED <<toMain, messageQueue, processQueueIsRunning, ctx, wpc, encoded, mainVars, duringInit, handled, decodeLog, outcome, late, symbolVars>>

\* startPyodide() fulfils: pyodideStarting = false, then the .then
\* callback in the same turn: ctx = pyodide, processQueue() if anything
\* was buffered
StartPyodideFulfils ==
  /\ wpc = "idle"
  /\ startup = "pending"
  /\ startup' = "fulfilled"
  /\ pyodideStarting' = FALSE
  /\ ctx' = "pyodide"
  /\ IF Len(messageQueue) > 0
     THEN ProcessQueue(messageQueue)
     ELSE UNCHANGED <<processQueueIsRunning, encoded, messageQueue, decodeLog, wpc>>
  /\ UNCHANGED <<toWorker, toMain, mainVars, duringInit, handled, outcome, late, startPyodideCalls, symbolVars>>

\* pyodideStarting when startPyodide() leaves by an exception: line 40
\* (pyodideStarting = false) is not reached and there is no finally
FlagResetAfterRejection(flag) == FALSE
FlagAfterRejection(flag) == flag

\* loadPyodide, fetch, unpackArchive or pyimport fails: the promise
\* rejects, nothing handles it, pyodideStarting stays true
StartPyodideRejects ==
  /\ wpc = "idle"
  /\ startup = "pending"
  /\ startup' = "rejected"
  /\ pyodideStarting' = FlagAfterRejection(pyodideStarting)
  /\ UNCHANGED <<toWorker, toMain, messageQueue, processQueueIsRunning, ctx, wpc, encoded, mainVars, histVars, symbolVars>>

\* handleMessage, SYNOP_raw == null: answered at once
HandleMessageNull ==
  /\ wpc = "idle"
  /\ toWorker # <<>>
  /\ HasSynopRaw(Head(toWorker))
  /\ IsAbsent(Head(toWorker).SYNOP_raw)
  /\ toWorker' = Tail(toWorker)
  /\ toMain' = Append(toMain, Response(NullDecoded, Head(toWorker)))
  /\ handled' = handled \cup {Head(toWorker).src}
  /\ duringInit' = IF pyodideStarting THEN duringInit \cup {Head(toWorker).src} ELSE duringInit
  /\ UNCHANGED <<workerVars, mainVars, decodeLog, outcome, late, startPyodideCalls, symbolVars>>

\* handleMessage, pyodide still starting: the message is only queued
HandleMessageStarting ==
  /\ wpc = "idle"
  /\ toWorker # <<>>
  /\ HasSynopRaw(Head(toWorker))
  /\ ~IsAbsent(Head(toWorker).SYNOP_raw)
  /\ pyodideStarting
  /\ toWorker' = Tail(toWorker)
  /\ messageQueue' = Push(messageQueue, Head(toWorker))
  /\ handled' = handled \cup {Head(toWorker).src}
  /\ duringInit' = duringInit \cup {Head(toWorker).src}
  /\ UNCHANGED <<toMain, pyodideStarting, processQueueIsRunning, ctx, startup, wpc, encoded, mainVars, decodeLog, outcome, late, startPyodideCalls, symbolVars>>

\* handleMessage, pyodide running: queued, and processQueue() started
\* unless processQueueIsRunning
HandleMessageRunning ==
  /\ wpc = "idle"
  /\ toWorker # <<>>
  /\ HasSynopRaw(Head(toWorker))
  /\ ~IsAbsent(Head(toWorker).SYNOP_raw)
  /\ ~pyodideStarting
  /\ toWorker' = Tail(toWorker)
  /\ handled' = handled \cup {Head(toWorker).src}
  /\ IF ~processQueueIsRunning
     THEN ProcessQueue(Push(messageQueue, Head(toWorker)))
     ELSE /\ messageQueue' = Push(messageQueue, Head(toWorker))
          /\ UNCHANGED <<processQueueIsRunning, encoded, decodeLog, wpc>>
  /\ UNCHANGED <<toMain, pyodideStarting, ctx, startup, mainVars, duringInit, outcome, late, startPyodideCalls, symbolVars>>

\* decodeSynop: for one report the decoder (runPython + json.dumps) hands
\* back the JSON of a record, or "null" when it could not decode.
\* Here runPython returned the JSON of a record; _raw is set, the result
\* posted, and processQueue's loop goes on
DecodeSynopPosts ==
  /\ wpc = "decodeSynop"
  /\ ctx = "pyodide"
  /\ toMain' = Append(toMain, Response(Parsed(encoded.SYNOP_raw), encoded))
  /\ outcome' = [outcome EXCEPT ![encoded.src] = "record"]
  /\ ProcessQueue(messageQueue)
  /\ UNCHANGED <<toWorker, pyodideStarting, ctx, startup, mainVars, duringInit, handled, late, startPyodideCalls, symbolVars>>

\* decodeSynop throws: the decoder returned None, so that JSON.parse gives
\* null and parsed['_raw'] = ... is a TypeError (line 78).  Nothing is
\* posted, the exception leaves processQueue before processQueueIsRunning
\* is reset.  (A Python exception raised by runPython leaves the same way.)
DecodeSynopThrows ==
  /\ wpc = "decodeSynop"
  /\ outcome' = [outcome EXCEPT ![encoded.src] = "null"]
  /\ wpc' = "idle"
  /\ encoded' = NoMessage
  /\ UNCHANGED <<toWorker, toMain, messageQueue, pyodideStarting, processQueueIsRunning, ctx, startup, mainVars, duringInit, handled, decodeLog, late, startPyodideCalls, symbolVars>>

(* ------------------------------ main.js ------------------------------- *)

\* decodedSynops.find(obj => obj.leafletID === leafletID): the index of
\* the first entry with that leafletID, 0 for undefined
FindFirstEntry(table, id) == IF Len(table) > 0 THEN 1 ELSE 0
Find(table, id) ==
  IF \E i \in 1..Len(table) : table[i].leafletID = id
  THEN CHOOSE i \in 1..Len(table) :
         /\ table[i].leafletID = id
         /\ \A j \in 1..(i - 1) : table[j].leafletID # id
  ELSE 0

\* if (timeOut < 1)
TimedOutLate(t) == t < 0
TimedOut(t) == t < 1

\* the interval timer stays set after a firing: clearInterval(timer) is
\* called inside if (timeOut < 1) only, resolve() leaves the timer set
FiresWhilePending(t, settled) == ~TimedOut(t) /\ settled = "pending"
FiresAgain(t, settled) == ~TimedOut(t)

\* myWorker.onmessage: decodedSynops.push(e.data)
MainOnMessage ==
  /\ toMain # <<>>
  /\ toMain' = Tail(toMain)
  /\ decodedSynops' = Append(decodedSynops, Head(toMain))
  /\ late' = IF promise[Head(toMain).src] = "rejected"
             THEN late \cup {Len(decodedSynops) + 1} ELSE late
  /\ UNCHANGED <<toWorker, workerVars, nCalls, data, timeOut, timers, promise, result, compile, rejects, duringInit, handled, decodeLog, outcome, startPyodideCalls, symbolVars>>

\* the leafletIDs the host may pass with call c.  leafletIDs are opaque and
\* only compared with ===, so a call either reuses the ID of an earlier
\* call or takes the next unused one
IDs(c) == 1..(Cardinality({data[d].leafletID : d \in 1..(c - 1)}) + 1)

\* meteoStation(data, ...) up to its await: the request is posted and
\* waitForDecodedSynop sets its interval timer
MeteoStationCall(c, raw, id) ==
  /\ c = nCalls + 1
  /\ nCalls' = c
  /\ data' = [data EXCEPT ![c] = [rawSynop |-> raw, leafletID |-> id]]
  /\ toWorker' = Append(toWorker, Request(c, raw, id))
  /\ timeOut' = [timeOut EXCEPT ![c] = timeOutStart]
  /\ timers' = Append(timers, c)
  /\ promise' = [promise EXCEPT ![c] = "pending"]
  /\ compile' = [compile EXCEPT ![c] = "awaiting"]
  /\ UNCHANGED <<toMain, workerVars, decodedSynops, result, rejects, histVars>>

\* a call of meteoStation by the host, with any text and leafletID
MeteoStation(c) ==
  /\ \E raw \in Texts, id \in IDs(c) : MeteoStationCall(c, raw, id)
  /\ UNCHANGED symbolVars

\* what meteoStation does once its await settles: a rejection leaves
\* through the await (no try/catch), a result with decoded != null gets
\* its slots filled in, decoded == null returns the bare svg
AfterAwait(settled, entry) ==
  IF settled = "rejected" THEN "rejected"
  ELSE IF entry.decoded # NullDecoded THEN "svgSlots" ELSE "svgEmpty"

\* one firing of the interval timer of waitForDecodedSynop(leafletID),
\* and meteoStation's continuation when this firing settles the promise.
\* All timers have the same interval, so the runtime fires them in turn:
\* a timer fires after every timer set (or re-armed) before it, and a
\* new timer fires after all those already waiting
WaitTick(c) ==
  /\ timers # <<>>
  /\ c = Head(timers)
  /\ LET t == timeOut[c] - interval
         idx == Find(decodedSynops, data[c].leafletID)
         afterReject == IF TimedOut(t) /\ promise[c] = "pending" THEN "rejected" ELSE promise[c]
         afterResolve == IF idx # 0 /\ afterReject = "pending" THEN "resolved" ELSE afterReject
     IN /\ timeOut' = [timeOut EXCEPT ![c] = t]
        /\ timers' = IF FiresAgain(t, afterResolve) THEN Append(Tail(timers), c) ELSE Tail(timers)
        /\ rejects' = [rejects EXCEPT ![c] = IF TimedOut(t) THEN @ + 1 ELSE @]
        /\ promise' = [promise EXCEPT ![c] = afterResolve]
        /\ result' = [result EXCEPT ![c] = IF promise[c] = "pending" /\ afterResolve = "resolved" THEN idx ELSE @]
        /\ compile' = [compile EXCEPT ![c] =
                         IF promise[c] = "pending" /\ afterResolve # "pending"
                         THEN AfterAwait(afterResolve, IF idx # 0 THEN decodedSynops[idx] ELSE Response(NullDecoded, NoMessage))
                         ELSE @]
  /\ UNCHANGED <<toWorker, toMain, workerVars, decodedSynops, nCalls, data, histVars, symbolVars>>

Next ==
  \/ OnMessageBaseURI
  \/ StartPyodideFulfils
  \/ StartPyodideRejects
  \/ HandleMessageNull
  \/ HandleMessageStarting
  \/ HandleMessageRunning
  \/ DecodeSynopPosts
  \/ DecodeSynopThrows
  \/ MainOnMessage
  \/ \E c \in Calls : MeteoStation(c)
  \/ \E c \in Calls : WaitTick(c)

Spec == Init /\ [][Next]_vars

\* Scheduling.  The worker's event loop delivers every message posted to
\* it and runs a handler to its end; startPyodide() settles, fulfilled or
\* rejected; decodeSynop, once entered, posts or throws; the main event
\* loop delivers every message of the worker and fires every interval
\* timer that is set.  Nothing obliges the host to call meteoStation.
Fairness ==
  /\ WF_vars(OnMessageBaseURI)
  /\ WF_vars(StartPyodideFulfils \/ StartPyodideRejects)
  /\ WF_vars(HandleMessageNull)
  /\ WF_vars(HandleMessageStarting)
  /\ WF_vars(HandleMessageRunning)
  /\ WF_vars(DecodeSynopPosts \/ DecodeSynopThrows)
  /\ WF_vars(MainOnMessage)
  /\ \A c \in Calls : WF_vars(WaitTick(c))

SpecFair == Spec /\ Fairness

(* -------------------- main.js: the text functions --------------------- *)
(* Strings are sequences of one-character strings.  A number with at     *)
(* most one decimal (what the decoder reports) is held in tenths, so that *)
(* value * 10, value % 1 and value / 2.5 are integer arithmetic.          *)

\* largest wind speed and largest pressure applied, in tenths
MaxSpeed == 1300
MaxPressure == 10500
\* largest pressure change applied (either sign), in tenths
MaxChange == 150

Digit == <<"0", "1", "2", "3", "4", "5", "6", "7", "8", "9">>

\* String(n) of a non-negative integer n
RECURSIVE NumberToString(_)
NumberToString(n) == IF n < 10 THEN <<Digit[n + 1]>> ELSE Append(NumberToString(n \div 10), Digit[(n % 10) + 1])

\* String(undefined)
StrUndefined == <<"u", "n", "d", "e", "f", "i", "n", "e", "d">>

\* str.padStart(targetLength, padString) with a one-character padString
RECURSIVE PadStart(_, _, _)
PadStart(str, targetLength, padString) ==
  IF Len(str) >= targetLength THEN str
  ELSE PadStart(<<padString>> \o str, targetLength, padString)

\* str.slice(-n)
SliceFirst(str, n) == IF Len(str) <= n THEN str ELSE SubSeq(str, 1, n)
SliceLast(str, n) == IF Len(str) <= n THEN str ELSE SubSeq(str, Len(str) - n + 1, Len(str))

\* Math.round(num / den) of non-negative num, den > 0: the nearest
\* integer, a half rounded up
MathFloor(num, den) == num \div den
MathRound(num, den) == (2 * num + den) \div (2 * den)

\* windSpeedSymbolMatch(speed, sourceUnit), speed in tenths: speed / 2.5
\* is (tenths of speed) / 25, speed / 5 is (tenths of speed) / 50; with
\* any other unit symbolFileNumber stays undefined
windSpeedSymbolMatch(speed, sourceUnit) ==
  CASE sourceUnit = "m/s" -> PadStart(NumberToString(MathRound(speed, 25)), 2, "0")
    [] sourceUnit = "KT" -> PadStart(NumberToString(MathRound(speed, 50)), 2, "0")
    [] OTHER -> PadStart(StrUndefined, 2, "0")

\* case 8, processedValue, of sea_level_pressure.value in tenths:
\*   value % 1 == 0 ? String(value+"0").slice(-3)
\*                  : String(value*10).slice(-3).padStart(3, 0)
\* (value * 10 of a value with one decimal is the whole number of tenths:
\* the binary64 product is exact over the range applied)
processedValue(value) ==
  IF value % 10 = 0
  THEN SliceLast(Append(NumberToString(value \div 10), "0"), 3)
  ELSE PadStart(SliceLast(NumberToString(value), 3), 3, "0")

\* String(n) of an integer n
NumberToStringSigned(n) ==
  IF n < 0 THEN <<"-">> \o NumberToString(-n) ELSE NumberToString(n)

\* str.slice(1)
SliceNone(str) == str
SliceFromOne(str) == IF str = <<>> THEN str ELSE Tail(str)

\* Math.abs(n)
MathAbs(n) == IF n < 0 THEN -n ELSE n

\* case 13, processedValue, of pressure_tendency.change.value in tenths
\* (9.9 is 99 tenths; value * 10 is the whole number of tenths):
\*   Math.abs(value) <= 9.9
\*     ? (value < 0 ? '-' + String(Math.abs(value)*10).padStart(2, 0)
\*                  : String(value*10).padStart(2, 0))
\*     : String(value*10)
\* and, if (options.polyChromatic && value < 0), processedValue.slice(1)
tendencyText(value, polyChromatic) ==
  LET text == IF MathAbs(value) <= 99
              THEN IF value < 0
                   THEN <<"-">> \o PadStart(NumberToString(MathAbs(value)), 2, "0")
                   ELSE PadStart(NumberToString(value), 2, "0")
              ELSE NumberToStringSigned(value)
  IN IF polyChromatic /\ value < 0 THEN SliceFromOne(text) ELSE text
\* case 13: element.setAttribute("style", "fill: red;")
tendencyStyle(value, polyChromatic) ==
  IF polyChromatic /\ value < 0 THEN "fill: red;" ELSE ""

\* a child element: a text, an icon (directory and file) or a rect
Node(tag, content, rotate) == [tag |-> tag, content |-> content, rotate |-> rotate]
createTextElement(str) == Node("text", str, 0)
\* loadSVGIcon(path): <<>> for null (status other than 200)
loadSVGIcon(dir, file, missing) ==
  IF dir \in missing THEN <<>> ELSE <<Node("icon", <<dir>> \o file, 0)>>
\* icon.setAttribute("transform", ... rotate(deg)) inside if (icon)
Rotate(icon, deg) == IF icon = <<>> THEN icon ELSE <<[icon[1] EXCEPT !.rotate = deg]>>

\* case 11 once weather_indicator is there: the children appended for a
\* station that is automatic or not, with weather_indicator.value ix and
\* present_weather absent, null or carrying code.  Everything is inside
\* if (decodedData.present_weather != null), so that
\* !decodedData.hasOwnProperty('present_weather') is false where it is tested
presentWeather(automatic, ix, pw, code, missing) ==
  IF pw = "value"
  THEN IF automatic
       THEN IF ix = 5 THEN <<>>
            ELSE IF ix = 6 \/ (ix = 7 /\ pw = "absent")
                 THEN <<createTextElement(<<"/", "/">>)>>
                 ELSE loadSVGIcon("wawa_PresentWeatherAutomaticStation",
                                  PadStart(NumberToString(code), 2, "0"), missing)
       ELSE IF ix = 2 \/ ix = 5 THEN <<>>
            ELSE IF ix = 3 \/ ix = 6 \/ ((ix = 1 \/ ix = 4) /\ pw = "absent")
                 THEN <<createTextElement(<<"/", "/">>)>>
                 ELSE loadSVGIcon("ww_PresentWeather",
                                  PadStart(NumberToString(code), 2, "0"), missing)
  ELSE <<>>

\* case 12, wind plot.  surface_wind is "absent", "null" or an object;
\* its direction and its speed are "absent", "null", an object whose value
\* is null ("nullValue") or an object with a value ("value": deg degrees,
\* value tenths of unit).
\*   hasOwnProperty("surface_wind") && surface_wind != null
\*     && surface_wind.hasOwnProperty("direction") && direction != null
\*     && direction.value != null
windDirectionPresent(wind) == wind.surface_wind = "value" /\ wind.direction = "value"
\*   surface_wind.hasOwnProperty("speed") && surface_wind.speed != null
windSpeedPresent(wind) == wind.speed \in {"nullValue", "value"}
\* pointCoords[1] > 0
AtOrNorthOfEquator(lat) == lat >= 0
NorthernHemisphere(lat) == lat > 0
\* the icon variable when line 577 is reached (null / 2.5 is 0)
windIcon(wind, lat, missing) ==
  IF windSpeedPresent(wind)
  THEN LET symbolFileNumber ==
             windSpeedSymbolMatch(IF wind.speed = "nullValue" THEN 0 ELSE wind.value,
                                  wind.unit)
       IN IF symbolFileNumber = <<"0", "0">> \/ symbolFileNumber = <<"0", "1">>
          THEN loadSVGIcon("ddff_WindArrows", <<"Calm_00">>, missing)
          ELSE IF NorthernHemisphere(lat)
               THEN Rotate(loadSVGIcon("ddff_WindArrows", <<"NH_">> \o symbolFileNumber, missing),
                           wind.deg + 90)
               ELSE Rotate(loadSVGIcon("ddff_WindArrows", <<"SH_">> \o symbolFileNumber, missing),
                           wind.deg - 90)
  ELSE Rotate(loadSVGIcon("ddff_WindArrows", <<"Missing_99">>, missing), wind.deg + 90)
\* the wind primitives in the slot after case 12 (the calm icon, appended
\* to svg at line 539, is moved into the element by line 577)
windPlot(wind, lat, missing) ==
  IF windDirectionPresent(wind) THEN windIcon(wind, lat, missing) ELSE <<>>

\* case 18 once past_weather and weather_indicator are there.  w1 and w2
\* are past_weather[0] and past_weather[1]: null, an object whose value is
\* null, or an object with a code.  Done and Throws as the slot rules
\* return them: the children appended, and the error raised if any.
PastNull == [state |-> "null", code |-> 0]
PastNullValue == [state |-> "nullValue", code |-> 0]
PastCode(n) == [state |-> "value", code |-> n]
Done(children) == [children |-> children, thrown |-> ""]
Throws(children, error) == [children |-> children, thrown |-> error]
\* value != 0 && value != 1 && value != 2 (lines 863-865, 893-895)
IsPlottedCode(w) == w.code \notin {0, 1, 2}
\* '..._W1W2_' + past_weather[i].value, after value == 3 ? value = "3a"
PastFile(w, workaround) ==
  IF w.state = "nullValue" THEN <<"null">>
  ELSE IF workaround /\ w.code = 3 THEN <<"3a">>
  ELSE NumberToString(w.code)
pastWeather(automatic, w1, w2, missing) ==
  IF w1.state = "null" /\ w2.state = "null" THEN Done(<<>>)
  ELSE IF automatic
  THEN IF w1.state = "null" THEN Throws(<<>>, "TypeError past_weather[0]")
       ELSE IF w2.state = "value"
       THEN Done(loadSVGIcon("Wa1Wa2_PastWeatherAutomaticStation", PastFile(w1, FALSE), missing)
                 \o loadSVGIcon("Wa1Wa2_PastWeatherAutomaticStation", PastFile(w2, FALSE), missing))
       ELSE Done(loadSVGIcon("Wa1Wa2_PastWeatherAutomaticStation", PastFile(w1, FALSE), missing))
  ELSE IF w2.state = "value" /\ IsPlottedCode(w2)
  THEN IF w1.state = "null" THEN Throws(<<>>, "TypeError past_weather[0]")
       ELSE LET icon1 == loadSVGIcon("W1W2_PastWeather", PastFile(w1, TRUE), missing)
            IN Done(icon1 \o loadSVGIcon("W1W2_PastWeather", PastFile(w2, icon1 # <<>>), missing))
  ELSE IF w1.state = "value" /\ IsPlottedCode(w1)
  THEN Done(loadSVGIcon("W1W2_PastWeather", PastFile(w1, TRUE), missing))
  ELSE Done(<<>>)
\* case 18: if (options.polyChromatic) element.setAttribute("style", ...)
\* inside if (icon2) / if (icon) of the manned branch
pastWeatherStyle(automatic, w1, w2, polyChromatic, missing) ==
  IF polyChromatic /\ ~automatic /\ pastWeather(automatic, w1, w2, missing).children # <<>>
  THEN "filter: red" ELSE ""

\* the children of a slot as one string: the tag and content of each
Flat(children) ==
  IF children = <<>> THEN <<>> ELSE <<children[1].tag>> \o children[1].content

Units == {"m/s", "KT", "km/h"}
FieldStates == {"absent", "null", "nullValue", "value"}
Directions == {0, 270}
WindSpeeds == {0, 12, 37, 38, 120}
Latitudes == {-45, 0, 45}
PastCodes == 0..9
PastElements == {PastNull, PastNullValue} \cup {PastCode(n) : n \in PastCodes}
FormatInputs ==
  [fn : {"windSpeedSymbolMatch"}, value : 0..MaxSpeed, unit : Units]
    \cup [fn : {"processedValue"}, value : 0..MaxPressure, unit : {"hPa"}]
    \cup [fn : {"tendencyText"}, value : (-MaxChange)..MaxChange, unit : {"polyChromatic", "monochrome"}]
    \cup [fn : {"presentWeather"}, value : 1..7, unit : {"automatic", "manned"},
          present_weather : {"absent", "null", "value"}, code : {5, 45}]
    \cup [fn : {"windPlot"}, surface_wind : {"absent", "null", "value"},
          direction : FieldStates, deg : Directions,
          speed : FieldStates, value : WindSpeeds, unit : Units, lat : Latitudes]
    \cup [fn : {"pastWeather"}, unit : {"automatic", "manned"},
          w1 : PastElements, w2 : PastElements, polyChromatic : BOOLEAN,
          missing : {{}, {"W1W2_PastWeather"}}]

\* the worker and the result table before anything is posted
OrchestrationOff ==
  /\ toWorker = <<>>
  /\ toMain = <<>>
  /\ messageQueue = <<>>
  /\ pyodideStarting = FALSE
  /\ processQueueIsRunning = FALSE
  /\ ctx = "undefined"
  /\ startup = "notCalled"
  /\ wpc = "idle"
  /\ encoded = NoMessage
  /\ decodedSynops = <<>>
  /\ nCalls = 0
  /\ data = [c \in Calls |-> [rawSynop |-> Absent, leafletID |-> 0]]
  /\ timeOut = [c \in Calls |-> 0]
  /\ timers = <<>>
  /\ promise = [c \in Calls |-> "none"]
  /\ result = [c \in Calls |-> 0]
  /\ compile = [c \in Calls |-> "notCalled"]
  /\ duringInit = {}
  /\ handled = {}
  /\ decodeLog = <<>>
  /\ outcome = [c \in Calls |-> "none"]
  /\ late = {}
  /\ startPyodideCalls = 0
  /\ rejects = [c \in Calls |-> 0]

InitFormat ==
  /\ OrchestrationOff
  /\ RenderOff
  /\ WrapperOff
  /\ fmtPc = "input"
  /\ fmtIn \in FormatInputs
  /\ fmtOut = <<>>
  /\ fmtStyle = ""

WindSpeedSymbolMatch ==
  /\ fmtPc = "input"
  /\ fmtIn.fn = "windSpeedSymbolMatch"
  /\ fmtOut' = windSpeedSymbolMatch(fmtIn.value, fmtIn.unit)
  /\ fmtPc' = "applied"
  /\ UNCHANGED <<fmtIn, fmtStyle, renderVars, wrapperVars, toWorker, toMain, workerVars, mainVars, histVars>>

ProcessedValue ==
  /\ fmtPc = "input"
  /\ fmtIn.fn = "processedValue"
  /\ fmtOut' = processedValue(fmtIn.value)
  /\ fmtPc' = "applied"
  /\ UNCHANGED <<fmtIn, fmtStyle, renderVars, wrapperVars, toWorker, toMain, workerVars, mainVars, histVars>>

\* case 13 for a record whose pressure_tendency.change.value is fmtIn.value,
\* with options.polyChromatic as fmtIn.unit says
TendencyText ==
  /\ fmtPc = "input"
  /\ fmtIn.fn = "tendencyText"
  /\ fmtOut' = tendencyText(fmtIn.value, fmtIn.unit = "polyChromatic")
  /\ fmtStyle' = tendencyStyle(fmtIn.value, fmtIn.unit = "polyChromatic")
  /\ fmtPc' = "applied"
  /\ UNCHANGED <<fmtIn, renderVars, wrapperVars, toWorker, toMain, workerVars, mainVars, histVars>>

\* case 11 for a record whose weather_indicator is {value: fmtIn.value,
\* automatic: ...} and whose present_weather is as fmtIn says, every icon
\* being available
PresentWeather ==
  /\ fmtPc = "input"
  /\ fmtIn.fn = "presentWeather"
  /\ fmtOut' = Flat(presentWeather(fmtIn.unit = "automatic", fmtIn.value,
                                   fmtIn.present_weather, fmtIn.code, {}))
  /\ fmtPc' = "applied"
  /\ UNCHANGED <<fmtIn, fmtStyle, renderVars, wrapperVars, toWorker, toMain, workerVars, mainVars, histVars>>

\* the wind plot of case 12 for a record whose surface_wind is as fmtIn
\* says, at latitude fmtIn.lat, every icon being available
WindPlot ==
  /\ fmtPc = "input"
  /\ fmtIn.fn = "windPlot"
  /\ fmtOut' = windPlot(fmtIn, fmtIn.lat, {})
  /\ fmtPc' = "applied"
  /\ UNCHANGED <<fmtIn, fmtStyle, renderVars, wrapperVars, toWorker, toMain, workerVars, mainVars, histVars>>

\* case 18 for a record whose past_weather is [fmtIn.w1, fmtIn.w2], the
\* icon files of fmtIn.missing being unavailable
PastWeather ==
  /\ fmtPc = "input"
  /\ fmtIn.fn = "pastWeather"
  /\ fmtOut' = pastWeather(fmtIn.unit = "automatic", fmtIn.w1, fmtIn.w2, fmtIn.missing).children
  /\ fmtStyle' = pastWeatherStyle(fmtIn.unit = "automatic", fmtIn.w1, fmtIn.w2,
                                  fmtIn.polyChromatic, fmtIn.missing)
  /\ fmtPc' = "applied"
  /\ UNCHANGED <<fmtIn, renderVars, wrapperVars, toWorker, toMain, workerVars, mainVars, histVars>>

NextFormat ==
  \/ WindSpeedSymbolMatch
  \/ ProcessedValue
  \/ TendencyText
  \/ PresentWeather
  \/ WindPlot
  \/ PastWeather

SpecFormat == InitFormat /\ [][NextFormat]_vars

(* ---------------------- main.js: meteoStation ------------------------- *)
(* One call of meteoStation from its arguments to the svg it returns.    *)
(* The decoded record is held by the state of each field the slot rules   *)
(* test: "absent" (no own property), "null", or a value; the fields of    *)
(* slots 2, 6, 7, 10, 13, 14, 17, 18 and 23 are absent in every record    *)
(* applied.  Lengths are in hundredths, field values in tenths.           *)

\* the values carried by the fields that are present (present_weather and
\* surface_wind are tested with != null, so null stands with "absent")
Sample ==
  [sea_level_pressure |-> 10134, dewpoint_temperature |-> 123,
   cloud_cover |-> 4, present_weather |-> 5,
   direction |-> 270, speed |-> 120, calm |-> 10, unit |-> "m/s",
   manned |-> 1, automatic |-> 7]

Records ==
  [sea_level_pressure : {"absent", "value"},
   present_weather : {"absent", "value"},
   weather_indicator : {"absent", "manned", "automatic"},
   dewpoint_temperature : {"absent", "null", "value"},
   cloud_cover : {"absent", "null", "value"},
   surface_wind : {"absent", "noSpeed", "calm", "speed"}]

\* slots the caller may list in elementsToOmit, and the scaling objects
\* and option objects the caller may pass
OmittableSlots == {5, 8, 12}
UserScale == Num(200)
Scalings ==
  [stationModel : {UserScale}, font : {Undefined, UserScale}]
UserOptions ==
  {o \in [keys : SUBSET {"elementsToOmit", "scaling", "color"},
          elementsToOmit : SUBSET OmittableSlots,
          scaling : Scalings] :
     /\ "elementsToOmit" \notin o.keys => o.elementsToOmit = {}
     /\ "scaling" \notin o.keys => o.scaling = NoOptions.scaling}
IconDirs == {"N_TotalCloudCover", "ddff_WindArrows"}

\* Object.assign(defaultOptions, userOptions): each own key of the source
\* replaces the target's value of that key, a nested object as a whole
ObjectAssign(target, source) ==
  [target EXCEPT
     !.elementsToOmit = IF "elementsToOmit" \in source.keys THEN source.elementsToOmit ELSE @,
     !.scaling = IF "scaling" \in source.keys THEN source.scaling ELSE @,
     !.extra = source.keys \ {"elementsToOmit", "scaling"}]

\* a + k, NaN when a is undefined
Plus(a, k) == IF a = Undefined THEN Undefined ELSE Num(a[1] + k)

\* String(value) of a non-negative value in tenths
TenthsToString(t) ==
  IF t % 10 = 0 THEN NumberToString(t \div 10)
  ELSE NumberToString(t \div 10) \o <<".", Digit[(t % 10) + 1]>>

\* what a case of the switch does: the children appended to the slot's
\* element, and the exception that ended it

\* case 8
case8(d) ==
  IF d.sea_level_pressure = "value"
  THEN Done(<<createTextElement(processedValue(Sample.sea_level_pressure))>>)
  ELSE Done(<<>>)

\* case 11: present_weather != null, then weather_indicator.automatic is
\* read whether or not weather_indicator exists
case11(d, missing) ==
  IF d.present_weather = "value"
  THEN IF d.weather_indicator = "absent"
       THEN Throws(<<>>, "TypeError line 424")
       ELSE Done(presentWeather(d.weather_indicator = "automatic",
                                IF d.weather_indicator = "automatic"
                                THEN Sample.automatic ELSE Sample.manned,
                                d.present_weather, Sample.present_weather, missing))
  ELSE Done(<<>>)

\* decodedData.surface_wind of the records applied
SampleWind(kind) ==
  [surface_wind |-> IF kind = "absent" THEN "absent" ELSE "value",
   direction |-> "value", deg |-> Sample.direction,
   speed |-> IF kind = "noSpeed" THEN "absent" ELSE "value",
   value |-> IF kind = "calm" THEN Sample.calm ELSE Sample.speed,
   unit |-> Sample.unit]

\* case 12, sky cover
skyCover(d, missing) ==
  CASE d.cloud_cover = "value" ->
         loadSVGIcon("N_TotalCloudCover", <<"N_">> \o NumberToString(Sample.cloud_cover), missing)
    [] d.cloud_cover = "null" -> loadSVGIcon("N_TotalCloudCover", <<"N_Slash">>, missing)
    [] OTHER -> <<>>
\* case 12, automatic station symbol
automaticStationSymbol(d, missing) ==
  IF d.weather_indicator = "automatic"
  THEN loadSVGIcon("N_TotalCloudCover", <<"Automatic">>, missing)
  ELSE <<>>
\* case 12: element.appendChild(icon) at line 577 is not inside if (icon)
\* (the calm icon, appended to svg at line 539, is moved into the element
\* by line 577)
case12(d, coords, missing) ==
  LET before == skyCover(d, missing) \o automaticStationSymbol(d, missing)
      wind == SampleWind(d.surface_wind)
  IN IF windDirectionPresent(wind)
     THEN IF windIcon(wind, coords, missing) = <<>>
          THEN Throws(before, "TypeError line 577")
          ELSE Done(before \o windIcon(wind, coords, missing))
     ELSE Done(before)

\* case 16: dewpoint_temperature.value is read when the property exists,
\* null or not
case16(d, o) ==
  CASE d.dewpoint_temperature = "value" ->
         Done(<<createTextElement(IF o.dewPoint = "rounded"
                                  THEN NumberToString(MathRound(Sample.dewpoint_temperature, 10))
                                  ELSE TenthsToString(Sample.dewpoint_temperature))>>)
    [] d.dewpoint_temperature = "null" -> Throws(<<>>, "TypeError line 650")
    [] OTHER -> Done(<<>>)

\* switch (idx)
Switch(idx, d, o, coords, missing) ==
  CASE idx \in {4, 5, 9, 15, 20, 24} -> Done(<<>>)
    [] idx \in {2, 6, 7, 10, 13, 14, 17, 18, 23} -> Done(<<>>)
    [] idx = 8 -> case8(d)
    [] idx = 11 -> case11(d, missing)
    [] idx = 12 -> case12(d, coords, missing)
    [] idx = 16 -> case16(d, o)
    [] OTHER -> Done(IF o.debug THEN <<createTextElement(<<"x">>)>> ELSE <<>>)

\* options.elementsToOmit.includes(idx), and idx is not 12
NeverOmitted(idx, elementsToOmit) == FALSE
IsListed(idx, elementsToOmit) == idx \in elementsToOmit
IsOmitted(idx, elementsToOmit) == idx \in elementsToOmit /\ idx # 12

\* if (idx != 0 && idx % 5 == 0): a new row starts
EveryFifth(idx) == idx % 5 = 0
EndOfRow(idx) == idx # 0 /\ idx % 5 = 0

\* plottingModelSlotsContent[idx] as created by the first loop
SlotGroup(idx, o) ==
  IF idx # 12 /\ o.debug THEN <<Node("rect", <<>>, 0)>> ELSE <<>>

\* one call of the forEach callback; st: the svg's children, x, y, the
\* exception thrown and the slots whose case was entered
Callback(idx, st, d, o, coords, missing) ==
  IF idx = 25 THEN st
  ELSE LET endOfRow == EndOfRow(idx)
           x == IF endOfRow THEN 1666 ELSE st.x
           y == IF endOfRow THEN st.y + 1333 ELSE st.y
           omit == IsOmitted(idx, o.elementsToOmit)
           rule == IF omit THEN Done(<<>>) ELSE Switch(idx, d, o, coords, missing)
           element == [idx |-> idx,
                       translate |-> IF idx = 12 THEN <<5000, 5000>> ELSE <<x, y>>,
                       children |-> SlotGroup(idx, o) \o rule.children]
       IN [children |-> Append(st.children, element),
           x |-> IF rule.thrown = "" THEN x + 1333 ELSE x,
           y |-> y,
           thrown |-> rule.thrown,
           entered |-> IF omit THEN st.entered ELSE st.entered \cup {idx}]

\* plottingModelSlotsContent.forEach(...), left at once by an exception
RECURSIVE ForEach(_, _, _, _, _, _)
ForEach(idx, st, d, o, coords, missing) ==
  IF idx > 25 \/ st.thrown # "" THEN st
  ELSE ForEach(idx + 1, Callback(idx, st, d, o, coords, missing), d, o, coords, missing)

\* lines 250-1000 for a decoded value: nothing is built for null
Assemble(decoded, o, coords, missing) ==
  LET start == [children |-> <<>>, x |-> 1666, y |-> 1666, thrown |-> "", entered |-> {}]
  IN IF decoded # NullDecoded
     THEN ForEach(0, start, decoded[1], o, coords, missing)
     ELSE start

InitRender ==
  /\ OrchestrationOff
  /\ FormatOff
  /\ WrapperOff
  /\ renderPc = "called"
  /\ userOptions \in UserOptions
  /\ pointCoords \in {0, 45}
  /\ decodedData \in {NullDecoded} \cup {<<d>> : d \in Records}
  /\ missingAssets \in SUBSET IconDirs
  /\ options = defaultOptions
  /\ svg = NewSvg
  /\ thrown = ""
  /\ ruleLog = {}

\* meteoStation up to its await: the options are merged, the svg element
\* created and its attributes set
MeteoStationOptions ==
  /\ renderPc = "called"
  /\ renderPc' = "awaiting"
  /\ options' = ObjectAssign(defaultOptions, userOptions)
  /\ svg' = [NewSvg EXCEPT !.transform = Plus(options'.scaling.stationModel, 70),
                           !.fontSize = Plus(options'.scaling.font, -35)]
  /\ UNCHANGED <<userOptions, pointCoords, decodedData, missingAssets, thrown, ruleLog>>
  /\ UNCHANGED <<fmtVars, wrapperVars, toWorker, toMain, workerVars, mainVars, histVars>>

\* meteoStation after its await resolved with decodedData: the slots are
\* filled and the svg returned, unless an exception leaves the forEach
MeteoStationAssemble ==
  /\ renderPc = "awaiting"
  /\ LET built == Assemble(decodedData, options, pointCoords, missingAssets)
     IN /\ svg' = [svg EXCEPT !.children = built.children]
        /\ thrown' = built.thrown
        /\ ruleLog' = built.entered
        /\ renderPc' = IF built.thrown = "" THEN "returned" ELSE "threw"
  /\ UNCHANGED <<userOptions, pointCoords, decodedData, missingAssets, options>>
  /\ UNCHANGED <<fmtVars, wrapperVars, toWorker, toMain, workerVars, mainVars, histVars>>

NextRender == MeteoStationOptions \/ MeteoStationAssemble

SpecRender == InitRender /\ [][NextRender]_vars

(* ------------------------- wrapper_Leaflet.js ------------------------- *)
(* One run of _main over the layers of the group.  A feature is held by   *)
(* the value of properties[options.field] and the layer's _leaflet_id.    *)

\* properties has no own property options.field
NoAttribute == "no attribute"
FeatureTexts == {NoAttribute} \cup Texts
\* _leaflet_id values (L.stamp gives every layer its own)
LeafletIDs == 1..(MaxCalls + 1)
Features ==
  {fs \in UNION {[1..n -> [text : FeatureTexts, id : LeafletIDs]] : n \in 1..MaxCalls} :
     \A i, j \in DOMAIN fs : i # j => fs[i].id # fs[j].id}

\* !layer.feature.properties.hasOwnProperty(options.field)
LacksField(text) == text = NoAttribute
\* layer.feature.properties[options.field] == "" (false for null)
IsNeverEmpty(text) == FALSE
IsEmptyString(text) == text = Empty

InitWrapper ==
  /\ OrchestrationOff
  /\ FormatOff
  /\ RenderOff
  /\ features \in Features
  /\ layer = 0

\* the eachLayer callback for the next layer: the two early returns,
\* otherwise meteoStation(...) up to its await
EachLayer ==
  /\ layer < Len(features)
  /\ layer' = layer + 1
  /\ IF LacksField(features[layer + 1].text) \/ IsEmptyString(features[layer + 1].text)
     THEN UNCHANGED <<toWorker, toMain, workerVars, mainVars, histVars>>
     ELSE MeteoStationCall(nCalls + 1, features[layer + 1].text, features[layer + 1].id)
  /\ UNCHANGED <<features, fmtVars, renderVars>>

NextWrapper == EachLayer

SpecWrapper == InitWrapper /\ [][NextWrapper]_vars

(* ----------------------------- properties ----------------------------- *)

Started == 1..nCalls
\* the responses the worker has posted so far, in posting order
Posted == decodedSynops \o toMain
\* the place in the result table of the response to call c, 0 if none
Pos(c) ==
  IF \E i \in 1..Len(decodedSynops) : decodedSynops[i].src = c
  THEN CHOOSE i \in 1..Len(decodedSynops) : decodedSynops[i].src = c
  ELSE 0
HasText(c) == data[c].rawSynop # Absent
\* the response the worker owes call c when nothing was decoded for it
NullResponse(c) == [decoded |-> NullDecoded, leafletID |-> data[c].leafletID, src |-> c]
IsPosted(r) == \E i \in 1..Len(Posted) : Posted[i] = r
InQueue(c) == \E i \in 1..Len(messageQueue) : messageQueue[i].src = c
InDecodeLog(c) == \E i \in 1..Len(decodeLog) : decodeLog[i] = c

\* C1 (as stated): the results of all requests the worker received while
\* the backend was initializing, with text or without, are appended to the
\* result table in the order the requests were submitted.
C1_AllInSubmissionOrder ==
  \A a, b \in duringInit :
    (a < b /\ Pos(a) # 0 /\ Pos(b) # 0) => Pos(a) < Pos(b)

\* C1 (amended): the results of the requests received during
\* initialization are appended to the result table in submission order,
\* except that a request with absent text, answered at once, may come
\* before a request with text submitted earlier.
C1_InSubmissionOrderButAbsent ==
  \A a, b \in duringInit :
    (a < b /\ Pos(a) # 0 /\ Pos(b) # 0) =>
      (Pos(a) < Pos(b) \/ (HasText(a) /\ ~HasText(b)))

\* two requests with text buffered during initialization, both results in
\* the table
C1_Witness ==
  \E a, b \in duringInit :
    a < b /\ HasText(a) /\ HasText(b) /\ Pos(a) # 0 /\ Pos(b) # 0

\* the calls with text whose request the worker has received, in arrival
\* order (the channel is FIFO, so arrival order is call order)
TextArrivals == {c \in handled : HasText(c)}
\* decodes started and not yet returned
DecodesInProgress == {i \in 1..Len(decodeLog) : outcome[decodeLog[i]] = "none"}

\* C2: the decoder is invoked for the requests with text in arrival order
\* with none skipped, so everything buffered during initialization is
\* decoded before any request that arrived later; and at most one decode
\* is in progress.
C2_FifoOneAtATime ==
  /\ \A i \in 1..Len(decodeLog) :
       /\ decodeLog[i] \in TextArrivals
       /\ Cardinality({c \in TextArrivals : c < decodeLog[i]}) = i - 1
  /\ Cardinality(DecodesInProgress) <= 1

\* a buffered request was decoded, and after it a request that arrived
\* once initialization had completed
C2_Witness ==
  /\ Len(decodeLog) >= 2
  /\ decodeLog[1] \in duringInit
  /\ decodeLog[2] \notin duringInit
  /\ outcome[decodeLog[2]] = "record"

\* C3: when the calls made so far carry pairwise distinct leafletIDs,
\* every call that resolved did so with the table entry carrying its own
\* leafletID, posted in answer to its own request and decoded from its own
\* rawSynop.
C3_NoCrossTalk ==
  (\A a, b \in Started : a # b => data[a].leafletID # data[b].leafletID) =>
    \A c \in Started :
      promise[c] = "resolved" =>
        /\ result[c] \in 1..Len(decodedSynops)
        /\ decodedSynops[result[c]].leafletID = data[c].leafletID
        /\ decodedSynops[result[c]].src = c
        /\ decodedSynops[result[c]].decoded =
             (IF HasText(c) THEN Parsed(data[c].rawSynop) ELSE NullDecoded)

\* two calls with text and distinct leafletIDs in flight together: the
\* later one has resolved with a decoded record while the earlier one,
\* whose result is in the table too, is still polling
C3_Witness ==
  \E a, b \in Started :
    /\ a < b
    /\ data[a].leafletID # data[b].leafletID
    /\ HasText(a) /\ HasText(b)
    /\ promise[a] = "pending" /\ Pos(a) # 0
    /\ promise[b] = "resolved"

\* C4: a request with absent SYNOP_raw that the worker has received has
\* its {decoded: null, leafletID} response posted already, is not on
\* messageQueue and was never handed to the decoder.
C4_AbsentAnsweredAtOnce ==
  \A c \in handled :
    ~HasText(c) =>
      /\ IsPosted(NullResponse(c))
      /\ ~InQueue(c)
      /\ ~InDecodeLog(c)
      /\ encoded.src # c

\* absent-text requests answered in each backend state: while starting,
\* after a failed start, and with the backend running
C4_Witness ==
  /\ startup = "rejected"
  /\ \E c \in handled : ~HasText(c) /\ c \in duringInit /\ Pos(c) # 0
  /\ \E d \in handled : HasText(d) /\ InQueue(d)

\* C5: a request whose text is the empty string is neither queued nor
\* handed to the decoder, and its compile call ends with the bare
\* (null-result) diagram.
C5_EmptyShortCircuits ==
  \A c \in handled :
    data[c].rawSynop = Empty =>
      /\ ~InQueue(c)
      /\ ~InDecodeLog(c)
      /\ compile[c] \in {"awaiting", "svgEmpty"}

TimerSet(c) == \E i \in 1..Len(timers) : timers[i] = c
\* the polling budget (timeoutMs) counted down by a timer is used up
BudgetUsedUp(t) == t <= 0

\* C6, in each state: once a call's polling budget is used up it is
\* rejected, with reject() called once, unless it resolved before with an
\* entry of its own leafletID; and the timer whose turn it is can fire,
\* whatever state the other calls are in.
C6_State ==
  \A c \in Started :
    /\ rejects[c] <= 1
    /\ BudgetUsedUp(timeOut[c]) =>
         /\ rejects[c] = 1
         /\ \/ promise[c] = "rejected" /\ result[c] = 0
            \/ /\ promise[c] = "resolved"
               /\ result[c] \in 1..Len(decodedSynops)
               /\ decodedSynops[result[c]].leafletID = data[c].leafletID
    /\ ~BudgetUsedUp(timeOut[c]) => (TimerSet(c) /\ rejects[c] = 0)
    /\ (timers # <<>> /\ c = Head(timers)) => ENABLED WaitTick(c)

\* C6, in each step: a settled promise never changes; a firing of a
\* pending call's timer inside its budget resolves it if the table holds
\* an entry of its leafletID, whatever the state of the other calls.
C6_Step ==
  \A c \in Started :
    /\ promise[c] \in {"resolved", "rejected"} =>
         (promise'[c] = promise[c] /\ result'[c] = result[c])
    /\ ( /\ promise[c] = "pending"
         /\ timeOut'[c] # timeOut[c]
         /\ ~BudgetUsedUp(timeOut'[c])
         /\ Find(decodedSynops, data[c].leafletID) # 0 ) => promise'[c] = "resolved"
    /\ ( /\ promise[c] = "pending"
         /\ timeOut'[c] # timeOut[c]
         /\ BudgetUsedUp(timeOut'[c]) ) => promise'[c] = "rejected"

\* C6: a call whose result is not written in time rejects exactly once
\* and never resolves; it does not hold up a concurrent call with another
\* leafletID.
C6_TimeoutOnceNoBlocking == [](C6_State) /\ [][C6_Step]_vars

\* a call timed out with nothing written for its leafletID, and a later
\* call with another leafletID resolved
C6_Witness ==
  \E a, b \in Started :
    /\ a < b
    /\ data[a].leafletID # data[b].leafletID
    /\ promise[a] = "rejected"
    /\ Find(decodedSynops, data[a].leafletID) = 0
    /\ promise[b] = "resolved"

\* the worker has nothing left to run: no message waiting, no handler
\* active, startup finished successfully
WorkerAtRest == wpc = "idle" /\ toWorker = <<>> /\ startup = "fulfilled"

\* C7: when a request has timed out, the backend (started successfully)
\* still decodes every request with text submitted after it: once the
\* worker is at rest none of them is left undecoded.
C7_TimeoutLeavesBackendServing ==
  \A a, b \in Started :
    (a < b /\ promise[a] = "rejected" /\ HasText(b) /\ WorkerAtRest) =>
      InDecodeLog(b)

\* C8: a compile call whose decode result timed out still returns a
\* diagram; its meteoStation promise is not rejected.
C8_TimeoutAbsorbed ==
  \A c \in Started :
    promise[c] = "rejected" => compile[c] \in {"svgSlots", "svgEmpty"}

\* C9: a table entry that arrived after its caller had timed out is
\* never the entry a waitForDecodedSynop call resolves with.
C9_LateResultNeverConsumed ==
  \A c \in Started :
    promise[c] = "resolved" => result[c] \notin late

\* C10: when the decoder returned null for a request, the response
\* {decoded: null, leafletID} of that request has been posted.
C10_NullDecodeDelivered ==
  \A c \in Started :
    outcome[c] = "null" => IsPosted(NullResponse(c))

\* C11, in each state: after startPyodide() failed it was called only that
\* once, the worker still counts as starting, and no request was ever
\* handed to the decoder: requests with text are only buffered.
C11_State ==
  startup = "rejected" =>
    /\ startPyodideCalls = 1
    /\ pyodideStarting
    /\ ctx = "undefined"
    /\ decodeLog = <<>>
    /\ wpc = "idle"
    /\ \A c \in handled : HasText(c) => InQueue(c)

\* C11, in each step: a failed initialization stays failed.
C11_Step == startup = "rejected" => startup' = "rejected"

\* C11: when backend initialization fails it is never retried, and no
\* request is ever passed to the decoder.
C11_FailedInitNeverRetried == [](C11_State) /\ [][C11_Step]_vars

\* initialization failed; a request with text buffered before the failure
\* or received after it is still in messageQueue although its caller has
\* already given up, and a second one is buffered behind it
C11_Witness ==
  /\ startup = "rejected"
  /\ toWorker = <<>>
  /\ Len(messageQueue) = 2
  /\ messageQueue[1].src \notin duringInit \/ messageQueue[2].src \in duringInit
  /\ promise[messageQueue[1].src] = "rejected"

\* C12: a failed backend initialization is made known to the main
\* (caller/render) context: the worker has posted a message about it, the
\* only thing the main context listens to.
C12_InitFailureSurfaced ==
  startup = "rejected" =>
    \E i \in 1..Len(Posted) : Posted[i].src \notin Started

\* C13: whatever messages the worker receives, startPyodide() is called
\* at most once, and exactly once when the baseURI message has been handled.
C13_StartedOnce ==
  /\ startPyodideCalls <= 1
  /\ startup # "notCalled" => startPyodideCalls = 1

\* the backend was started, and since then the worker has handled a
\* request without text and one with text
C13_Witness ==
  /\ startPyodideCalls = 1
  /\ \E a, b \in handled : ~HasText(a) /\ HasText(b)

\* the number a string of decimal digits denotes
IsDigits(str) == \A i \in 1..Len(str) : \E d \in 1..10 : str[i] = Digit[d]
DigitValue(ch) == (CHOOSE d \in 1..10 : Digit[d] = ch) - 1
RECURSIVE ParseNat(_)
ParseNat(str) ==
  IF str = <<>> THEN 0
  ELSE 10 * ParseNat(SubSeq(str, 1, Len(str) - 1)) + DigitValue(str[Len(str)])
\* a decimal string padded with zeros to two digits: no leading zero
\* beyond the second last place
IsTwoDigitPadded(str) ==
  IsDigits(str) /\ Len(str) >= 2 /\ (Len(str) > 2 => str[1] # "0")
Applied(fn) == fmtPc = "applied" /\ fmtIn.fn = fn

\* C19: windSpeedSymbolMatch(speed, unit) is round(speed / 2.5) for m/s
\* and round(speed / 5) for KT, a half rounded up, written as a decimal
\* string zero-padded to two digits; (12, m/s) gives "05", (37.5, m/s)
\* "15", (16, KT) "03" and (124, KT) "25".  (speed is held in tenths: n is
\* round(speed/q) iff n - 1/2 <= speed/q < n + 1/2.)
C19_WindSpeedMatch ==
  (Applied("windSpeedSymbolMatch") /\ fmtIn.unit \in {"m/s", "KT"}) =>
    LET q == IF fmtIn.unit = "m/s" THEN 25 ELSE 50
        n == ParseNat(fmtOut)
    IN /\ IsTwoDigitPadded(fmtOut)
       /\ 2 * q * n - q <= 2 * fmtIn.value
       /\ 2 * fmtIn.value < 2 * q * n + q
       /\ (fmtIn.value = 120 /\ fmtIn.unit = "m/s") => fmtOut = <<"0", "5">>
       /\ (fmtIn.value = 375 /\ fmtIn.unit = "m/s") => fmtOut = <<"1", "5">>
       /\ (fmtIn.value = 160 /\ fmtIn.unit = "KT") => fmtOut = <<"0", "3">>
       /\ (fmtIn.value = 1240 /\ fmtIn.unit = "KT") => fmtOut = <<"2", "5">>

\* 12.5 KT, exactly between symbols 02 and 03, was matched to "03"
C19_Witness ==
  /\ Applied("windSpeedSymbolMatch")
  /\ fmtIn.unit = "KT" /\ fmtIn.value = 125
  /\ fmtOut = <<"0", "3">>

\* the slot-8 text of a pressure value in tenths, as the rule states it:
\* without fractional part the last two digits of the value followed by
\* "0", otherwise the last three digits of value * 10, zero-padded
PressureTextAsStated(str, value) ==
  /\ IsDigits(str)
  /\ value % 10 = 0 =>
       /\ str[Len(str)] = "0"
       /\ ParseNat(SubSeq(str, 1, Len(str) - 1)) = (value \div 10) % 100
  /\ value % 10 # 0 => ParseNat(str) = value % 1000

HasSlot(i) == \E k \in 1..Len(svg.children) : svg.children[k].idx = i
Slot(i) == svg.children[CHOOSE k \in 1..Len(svg.children) : svg.children[k].idx = i]
Returned == renderPc = "returned"
\* the slots listed for omission that may be omitted
Omitted == options.elementsToOmit \ {12}
\* the same compile with nothing listed for omission
Unomitted ==
  Assemble(decodedData, [options EXCEPT !.elementsToOmit = {}], pointCoords, missingAssets)
\* the same compile with every icon available
AllAssets == Assemble(decodedData, options, pointCoords, {})

C16_NeverThrowsOnFields ==
  missingAssets = {} => renderPc # "threw"

\* C17: icon lookups that find no asset raise no error: a compile that
\* returns the svg with every icon available returns it also when icons
\* are missing.
C17_MissingIconsNeverRaise ==
  (renderPc \in {"returned", "threw"} /\ AllAssets.thrown = "") => Returned

\* C18: every option the caller did not supply has its default, nested
\* ones included (scaling.font when only scaling.stationModel is given),
\* and the svg's scale and font-size are computed from them.
C18_UnsuppliedOptionsDefault ==
  renderPc # "called" =>
    /\ "elementsToOmit" \notin userOptions.keys => options.elementsToOmit = {}
    /\ ("scaling" \notin userOptions.keys \/ userOptions.scaling.stationModel = Undefined)
         => options.scaling.stationModel = Num(100)
    /\ ("scaling" \notin userOptions.keys \/ userOptions.scaling.font = Undefined)
         => options.scaling.font = Num(100)
    /\ options.polyChromatic /\ options.highCloudsInRed /\ ~options.debug
    /\ options.temperature = "raw" /\ options.dewPoint = "raw"
    /\ svg.transform = Num(options.scaling.stationModel[1] + 70)
    /\ svg.fontSize # Undefined

\* a pressure change was formatted in the given colour mode
AppliedTendency(mode) == Applied("tendencyText") /\ fmtIn.unit = mode
\* the tenths magnitude of the change, zero-padded to 2 digits
IsMagnitude(str, value) ==
  /\ IsDigits(str)
  /\ ParseNat(str) = (IF value < 0 THEN -value ELSE value)
  /\ Len(str) = (IF ParseNat(str) <= 99 THEN 2 ELSE 3)

\* C21 (as stated): up to 9.9 hPa the text is the 2-digit tenths
\* magnitude, with "-" in front exactly when the change is negative and
\* polychromatic mode is off; above 9.9 hPa it is the 3-digit magnitude
\* without sign in either mode; in polychromatic mode a negative change
\* has no sign and the alternate colour.
C21_LargeChangeUnsigned ==
  Applied("tendencyText") =>
    LET negative == fmtIn.value < 0
        small == fmtIn.value <= 99 /\ fmtIn.value >= -99
        signed == small /\ negative /\ fmtIn.unit = "monochrome"
    IN /\ signed => (fmtOut[1] = "-" /\ IsMagnitude(Tail(fmtOut), fmtIn.value))
       /\ ~signed => IsMagnitude(fmtOut, fmtIn.value)
       /\ fmtStyle = (IF negative /\ fmtIn.unit = "polyChromatic" THEN "fill: red;" ELSE "")

\* C21 (amended): the text is the tenths magnitude of the change, 2 digits
\* (zero-padded) up to 9.9 hPa and 3 digits above; it has "-" in front
\* exactly when the change is negative and polychromatic mode is off,
\* whatever the magnitude; in polychromatic mode a negative change has no
\* sign and the alternate colour.  4.7 gives "47", 12.2 "122", -9.9 "-99"
\* monochrome and "99" polychromatic.
C21_SignedUnlessPolychromatic ==
  Applied("tendencyText") =>
    LET negative == fmtIn.value < 0
        signed == negative /\ fmtIn.unit = "monochrome"
    IN /\ signed => (fmtOut[1] = "-" /\ IsMagnitude(Tail(fmtOut), fmtIn.value))
       /\ ~signed => IsMagnitude(fmtOut, fmtIn.value)
       /\ fmtStyle = (IF negative /\ fmtIn.unit = "polyChromatic" THEN "fill: red;" ELSE "")
       /\ fmtIn.value = 47 => fmtOut = <<"4", "7">>
       /\ fmtIn.value = 122 => fmtOut = <<"1", "2", "2">>
       /\ (fmtIn.value = -99 /\ fmtIn.unit = "monochrome") => fmtOut = <<"-", "9", "9">>
       /\ (fmtIn.value = -99 /\ fmtIn.unit = "polyChromatic") => fmtOut = <<"9", "9">>

\* a fall of 12.2 hPa formatted in polychromatic mode: "122" in red
C21_Witness ==
  /\ AppliedTendency("polyChromatic")
  /\ fmtIn.value = -122
  /\ fmtOut = <<"1", "2", "2">>
  /\ fmtStyle = "fill: red;"

\* C22: slot 11 as a function of the automatic flag, the indicator and
\* the presence of the present-weather group.  Automatic: indicator 5
\* blank, 6 or (7 without the group) "//".  Manned: 2 or 5 blank, 3 or 6
\* or (1 or 4 without the group) "//".  Otherwise, the group being there,
\* the icon of the code padded to 2 digits, wawa set or ww set.
C22_Slot11Content ==
  Applied("presentWeather") =>
    LET automatic == fmtIn.unit = "automatic"
        ix == fmtIn.value
        group == fmtIn.present_weather = "value"
        blank == IF automatic THEN ix = 5 ELSE ix \in {2, 5}
        slashes == IF automatic
                   THEN ix = 6 \/ (ix = 7 /\ ~group)
                   ELSE ix \in {3, 6} \/ (ix \in {1, 4} /\ ~group)
    IN /\ blank => fmtOut = <<>>
       /\ (~blank /\ slashes) => fmtOut = <<"text", "/", "/">>
       /\ (~blank /\ ~slashes /\ group) =>
            /\ Len(fmtOut) = 4
            /\ fmtOut[1] = "icon"
            /\ fmtOut[2] = (IF automatic THEN "wawa_PresentWeatherAutomaticStation"
                            ELSE "ww_PresentWeather")
            /\ ParseNat(SubSeq(fmtOut, 3, 4)) = fmtIn.code

\* the layers eachLayer has visited, and the meteoStation calls made and
\* the requests posted for the feature with _leaflet_id id
Visited == 1..layer
CallsFor(id) == {c \in Started : data[c].leafletID = id}
RequestsFor(id) == {i \in 1..Len(toWorker) : toWorker[i].leafletID = id}

GridPosition(i) ==
  IF i = 12 THEN <<5000, 5000>>
  ELSE <<1666 + (i % 5) * 1333, 1666 + (i \div 5) * 1333>>

\* C24: in the svg returned for a decoded record, whatever slots are
\* listed in elementsToOmit, the groups of slots 0..24 are there, slot i
\* translated by (16.66 + (i mod 5) * 13.33, 16.66 + floor(i / 5) * 13.33)
\* and slot 12 by (50, 50).
C24_SlotPositions ==
  (Returned /\ decodedData # NullDecoded) =>
    \A i \in 0..24 : HasSlot(i) /\ Slot(i).translate = GridPosition(i)

\* slots 5 (first of a row) and 8 were omitted, and the slots after them
\* are in place
C24_Witness ==
  /\ Returned
  /\ decodedData # NullDecoded
  /\ {5, 8} \subseteq Omitted
  /\ Slot(6).translate = <<2999, 2999>>
  /\ Slot(9).translate = <<6998, 2999>>

\* C25: with wind direction and wind speed both present, a symbol index of
\* "00" or "01" gives the calm-wind marker alone; any other index gives one
\* barb icon, of the northern set rotated by direction + 90 when the
\* latitude is above 0 and of the southern set rotated by direction - 90
\* when it is 0 or below, the icon index being windSpeedSymbolMatch(speed,
\* unit).
WindIconNode(file, deg) == Node("icon", <<"ddff_WindArrows">> \o file, deg)
C25_WindBarb ==
  (Applied("windPlot") /\ windDirectionPresent(fmtIn) /\ fmtIn.speed = "value") =>
    LET symbolIndex == windSpeedSymbolMatch(fmtIn.value, fmtIn.unit)
    IN IF symbolIndex \in {<<"0", "0">>, <<"0", "1">>}
       THEN fmtOut = <<WindIconNode(<<"Calm_00">>, 0)>>
       ELSE IF fmtIn.lat > 0
            THEN fmtOut = <<WindIconNode(<<"NH_">> \o symbolIndex, fmtIn.deg + 90)>>
            ELSE fmtOut = <<WindIconNode(<<"SH_">> \o symbolIndex, fmtIn.deg - 90)>>
\* direction 270, 12 m/s, latitude 45: the northern icon "05" rotated by 360
C25_Witness ==
  /\ Applied("windPlot") /\ windDirectionPresent(fmtIn) /\ fmtIn.speed = "value"
  /\ fmtIn.deg = 270 /\ fmtIn.value = 120 /\ fmtIn.unit = "m/s" /\ fmtIn.lat = 45
  /\ fmtOut = <<WindIconNode(<<"NH_", "0", "5">>, 360)>>

\* C26: with wind direction present and the speed absent, null or an
\* object whose value is null, the one wind primitive is the missing-speed
\* icon rotated by direction + 90; with the direction absent there is no
\* wind primitive at all.
C26_MissingSpeed ==
  Applied("windPlot") =>
    /\ (windDirectionPresent(fmtIn) /\ fmtIn.speed \in {"absent", "null", "nullValue"}) =>
          fmtOut = <<WindIconNode(<<"Missing_99">>, fmtIn.deg + 90)>>
    /\ ~windDirectionPresent(fmtIn) => fmtOut = <<>>

\* C27: for a manned station no icon of past-weather code 0, 1 or 2 is
\* added to slot 18, neither for W1 nor for W2, whatever the code of the
\* other element is.
SuppressedIcons == {Node("icon", <<"W1W2_PastWeather">> \o NumberToString(n), 0) : n \in {0, 1, 2}}
C27_MannedCodesSuppressed ==
  (Applied("pastWeather") /\ fmtIn.unit = "manned") =>
    \A i \in DOMAIN fmtOut : fmtOut[i] \notin SuppressedIcons

\* C28: when a leafletID is used again by a later call, the entry that
\* call's waitForDecodedSynop resolves with is the response to its own
\* request, never an older entry stored under the same leafletID.
C28_OwnResultUnderReusedID ==
  \A c \in Started :
    promise[c] = "resolved" => decodedSynops[result[c]].src = c

\* C30: the interval timer of a waitForDecodedSynop call never fires more
\* than timeOutStart / interval times (MaxTicks here, 500 in the source),
\* and it is still set exactly as long as it has fired fewer times,
\* whether its promise was resolved on an earlier tick or not: it is
\* cleared on the last tick and on no other.
Fired(c) == (timeOutStart - timeOut[c]) \div interval
C30_TimerFiresBudgetTimes ==
  \A c \in Started :
    /\ Fired(c) <= MaxTicks
    /\ TimerSet(c) <=> Fired(c) < MaxTicks
\* and, the event loop firing every timer that is set, each timer gets to
\* its last tick
C30_ReachesLastTick ==
  \A c \in Calls : (c \in Started) ~> (Fired(c) = MaxTicks /\ ~TimerSet(c))
\* a call resolved on an earlier tick whose timer went on to its last tick
\* and was cleared there, together with a resolved call whose timer is
\* still set
C30_Witness ==
  /\ promise[1] = "resolved" /\ Fired(1) = MaxTicks /\ ~TimerSet(1)
  /\ promise[2] = "resolved" /\ Fired(2) < MaxTicks /\ TimerSet(2)

\* C29: if startPyodide() succeeds and the decoder hands back a value for
\* every text (it raises no exception), every request meteoStation posts
\* is eventually answered by exactly one response carrying its leafletID:
\* none is lost, answered twice, or left in messageQueue forever.
Answers(c) == Cardinality({i \in 1..Len(Posted) : Posted[i].src = c})
C29_EveryRequestAnsweredOnce ==
  [](startup # "rejected") =>
    /\ [](\A c \in Calls : Answers(c) <= 1)
    /\ \A c \in Calls : (c \in Started) ~> (Answers(c) = 1)


============================================================================
